---- MODULE Spec2Model ----
(***************************************************************************)
(* Model of the photo enhancement engine of ragfoto:                       *)
(*   src/src/enhancement/image-enhancer.py                                 *)
(*                                                                         *)
(* Texts are sequences of one-character strings, so that str.lower() and   *)
(* the substring test `keyword in suggestion` are computed, not assumed.   *)
(* The characters c-cedilla and a-tilde are written "c_cedilla" and        *)
(* "a_tilde" ("C_CEDILLA", "A_TILDE" in upper case).                       *)
(*                                                                         *)
(* Numbers: deltas, contrast and the rule-of-thirds score are exact        *)
(* rationals written as integers in units of 1/Scale; the brightness of an *)
(* analysis is written in tenths (1280 is 128.0), so that                  *)
(* brightness / 255 is the integer brightness * Scale / 2550.              *)
(***************************************************************************)
EXTENDS Integers, Sequences, FiniteSets, TLC

\* Longest suggestion list the model enumerates.
MaxSuggestions == 2

\* Largest image side, in pixels, the crop solver is run on.
MaxDim == 6

\* largest width and height of an edge map
MaxSide == 12

\* largest width and height of a pixel array the warmth transform is run on
MaxArraySide == 2

\* largest number of files one session uploads
MaxUploads == 2

Scale == 255 * 10

\* n tenths (0.1 * n) in units of 1/Scale
Tenths(n) == (n * Scale) \div 10

Max(a, b) == IF a >= b THEN a ELSE b

Min(a, b) == IF a <= b THEN a ELSE b

(***************************************************************************)
(* Characters and strings                                                  *)
(***************************************************************************)
UpperToLower ==
    "A" :> "a" @@
    "B" :> "b" @@
    "C" :> "c" @@
    "D" :> "d" @@
    "E" :> "e" @@
    "F" :> "f" @@
    "G" :> "g" @@
    "H" :> "h" @@
    "I" :> "i" @@
    "J" :> "j" @@
    "K" :> "k" @@
    "L" :> "l" @@
    "M" :> "m" @@
    "N" :> "n" @@
    "O" :> "o" @@
    "P" :> "p" @@
    "Q" :> "q" @@
    "R" :> "r" @@
    "S" :> "s" @@
    "T" :> "t" @@
    "U" :> "u" @@
    "V" :> "v" @@
    "W" :> "w" @@
    "X" :> "x" @@
    "Y" :> "y" @@
    "Z" :> "z" @@
    "C_CEDILLA" :> "c_cedilla" @@
    "A_TILDE" :> "a_tilde"

\* str.lower() on one character
LowerChar(c) == IF c \in DOMAIN UpperToLower THEN UpperToLower[c] ELSE c

\* suggestion.lower(), line 57
Lower(s) == [i \in 1..Len(s) |-> LowerChar(s[i])]

\* Python's `k in s` on strings: k occurs in s as a contiguous substring
Contains(s, k) ==
    \E i \in 1..(Len(s) - Len(k) + 1) : \A j \in 1..Len(k) : s[i + j - 1] = k[j]

\* any(keyword in suggestion for keyword in K)
AnyIn(s, K) == \E k \in K : Contains(s, k)

(***************************************************************************)
(* Keyword tables of _parse_suggestions                                    *)
(***************************************************************************)
\* image-enhancer.py line 43
brightness_keywords ==
    { <<"b", "r", "i", "g", "h", "t">>,
      <<"d", "a", "r", "k">>,
      <<"e", "x", "p", "o", "s", "u", "r", "e">>,
      <<"i", "l", "l", "u", "m", "i", "n", "a">>,
      <<"l", "u", "z">>,
      <<"e", "s", "c", "u", "r">>,
      <<"e", "x", "p", "o", "s", "i", "c_cedilla", "a_tilde", "o">> }

\* line 44
contrast_keywords ==
    { <<"c", "o", "n", "t", "r", "a", "s", "t">>,
      <<"f", "l", "a", "t">>,
      <<"c", "o", "n", "t", "r", "a", "s", "t", "e">>,
      <<"p", "l", "a", "n", "o">> }

\* line 45
color_keywords ==
    { <<"s", "a", "t", "u", "r", "a", "t", "i", "o", "n">>,
      <<"v", "i", "b", "r", "a", "n", "t">>,
      <<"v", "i", "v", "i", "d">>,
      <<"c", "o", "l", "o", "r", "f", "u", "l">>,
      <<"s", "a", "t", "u", "r", "a", "c_cedilla", "a_tilde", "o">>,
      <<"v", "i", "b", "r", "a", "n", "t", "e">>,
      <<"c", "o", "l", "o", "r", "i", "d", "o">> }

\* line 46
sharpness_keywords ==
    { <<"s", "h", "a", "r", "p">>,
      <<"b", "l", "u", "r">>,
      <<"f", "o", "c", "u", "s">>,
      <<"n", "i", "t", "i", "d">>,
      <<"f", "o", "c", "o">>,
      <<"d", "e", "s", "f", "o", "q", "u", "e">> }

\* line 47
warmth_keywords ==
    { <<"w", "a", "r", "m">>,
      <<"c", "o", "o", "l">>,
      <<"t", "e", "m", "p", "e", "r", "a", "t", "u", "r", "e">>,
      <<"q", "u", "e", "n", "t", "e">>,
      <<"f", "r", "i", "o">>,
      <<"t", "e", "m", "p", "e", "r", "a", "t", "u", "r", "a">> }

\* line 48
composition_keywords ==
    { <<"c", "o", "m", "p", "o", "s", "i", "t", "i", "o", "n">>,
      <<"r", "u", "l", "e", " ", "o", "f", " ", "t", "h", "i", "r", "d", "s">>,
      <<"c", "r", "o", "p">>,
      <<"c", "o", "m", "p", "o", "s", "i", "c_cedilla", "a_tilde", "o">>,
      <<"r", "e", "g", "r", "a", " ", "d", "o", "s", " ", "t", "e", "r", "c_cedilla", "o", "s">>,
      <<"c", "o", "r", "t", "a", "r">> }

\* line 96: the two phrases tested inside the composition branch
rule_thirds_phrases ==
    { <<"r", "u", "l", "e", " ", "o", "f", " ", "t", "h", "i", "r", "d", "s">>,
      <<"r", "e", "g", "r", "a", " ", "d", "o", "s", " ", "t", "e", "r", "c_cedilla", "o", "s">> }

\* line 61
brightness_increase ==
    { <<"i", "n", "c", "r", "e", "a", "s", "e">>,
      <<"m", "o", "r", "e">>,
      <<"b", "r", "i", "g", "h", "t", "e", "r">>,
      <<"h", "i", "g", "h", "e", "r">>,
      <<"a", "u", "m", "e", "n", "t", "a", "r">>,
      <<"m", "a", "i", "s">>,
      <<"m", "a", "i", "o", "r">> }

\* line 63
brightness_decrease ==
    { <<"d", "e", "c", "r", "e", "a", "s", "e">>,
      <<"l", "e", "s", "s">>,
      <<"d", "a", "r", "k", "e", "r">>,
      <<"l", "o", "w", "e", "r">>,
      <<"d", "i", "m", "i", "n", "u", "i", "r">>,
      <<"m", "e", "n", "o", "s">>,
      <<"m", "e", "n", "o", "r">> }

\* line 68
contrast_increase ==
    { <<"i", "n", "c", "r", "e", "a", "s", "e">>,
      <<"m", "o", "r", "e">>,
      <<"h", "i", "g", "h", "e", "r">>,
      <<"a", "u", "m", "e", "n", "t", "a", "r">>,
      <<"m", "a", "i", "s">>,
      <<"m", "a", "i", "o", "r">> }

\* line 70
contrast_decrease ==
    { <<"d", "e", "c", "r", "e", "a", "s", "e">>,
      <<"l", "e", "s", "s">>,
      <<"l", "o", "w", "e", "r">>,
      <<"d", "i", "m", "i", "n", "u", "i", "r">>,
      <<"m", "e", "n", "o", "s">>,
      <<"m", "e", "n", "o", "r">> }

\* line 75
color_increase ==
    { <<"i", "n", "c", "r", "e", "a", "s", "e">>,
      <<"m", "o", "r", "e">>,
      <<"v", "i", "b", "r", "a", "n", "t">>,
      <<"c", "o", "l", "o", "r", "f", "u", "l">>,
      <<"a", "u", "m", "e", "n", "t", "a", "r">>,
      <<"m", "a", "i", "s">>,
      <<"v", "i", "b", "r", "a", "n", "t", "e">> }

\* line 77
color_decrease ==
    { <<"d", "e", "c", "r", "e", "a", "s", "e">>,
      <<"l", "e", "s", "s">>,
      <<"m", "u", "t", "e", "d">>,
      <<"d", "i", "m", "i", "n", "u", "i", "r">>,
      <<"m", "e", "n", "o", "s">> }

\* line 82
sharpness_increase ==
    { <<"i", "n", "c", "r", "e", "a", "s", "e">>,
      <<"m", "o", "r", "e">>,
      <<"s", "h", "a", "r", "p", "e", "r">>,
      <<"a", "u", "m", "e", "n", "t", "a", "r">>,
      <<"m", "a", "i", "s">>,
      <<"m", "a", "i", "o", "r">> }

\* line 84
sharpness_decrease ==
    { <<"d", "e", "c", "r", "e", "a", "s", "e">>,
      <<"l", "e", "s", "s">>,
      <<"s", "o", "f", "t", "e", "r">>,
      <<"d", "i", "m", "i", "n", "u", "i", "r">>,
      <<"m", "e", "n", "o", "s">>,
      <<"m", "e", "n", "o", "r">> }

\* line 89
warmth_increase ==
    { <<"w", "a", "r", "m", "e", "r">>,
      <<"i", "n", "c", "r", "e", "a", "s", "e">>,
      <<"m", "o", "r", "e">>,
      <<"m", "a", "i", "s", " ", "q", "u", "e", "n", "t", "e">>,
      <<"a", "u", "m", "e", "n", "t", "a", "r">> }

\* line 91
warmth_decrease ==
    { <<"c", "o", "o", "l", "e", "r">>,
      <<"d", "e", "c", "r", "e", "a", "s", "e">>,
      <<"l", "e", "s", "s">>,
      <<"m", "a", "i", "s", " ", "f", "r", "i", "o">>,
      <<"d", "i", "m", "i", "n", "u", "i", "r">> }

(***************************************************************************)
(* Inputs the model enumerates                                             *)
(***************************************************************************)
\* "increase brightness"
TxtIncreaseBrightness == <<"i", "n", "c", "r", "e", "a", "s", "e", " ", "b", "r", "i", "g", "h", "t", "n", "e", "s", "s">>

\* "darker"
TxtDarker == <<"d", "a", "r", "k", "e", "r">>

\* "more contrast"
TxtMoreContrast == <<"m", "o", "r", "e", " ", "c", "o", "n", "t", "r", "a", "s", "t">>

\* "menos contraste"
TxtMenosContraste == <<"m", "e", "n", "o", "s", " ", "c", "o", "n", "t", "r", "a", "s", "t", "e">>

\* "the composition needs rule of thirds work"
TxtCompositionThirds == <<"t", "h", "e", " ", "c", "o", "m", "p", "o", "s", "i", "t", "i", "o", "n", " ", "n", "e", "e", "d", "s", " ", "r", "u", "l", "e", " ", "o", "f", " ", "t", "h", "i", "r", "d", "s", " ", "w", "o", "r", "k">>

\* "REGRA DOS TERCOS", the C with a cedilla
TxtRegraUpper == <<"R", "E", "G", "R", "A", " ", "D", "O", "S", " ", "T", "E", "R", "C_CEDILLA", "O", "S">>

\* ""
TxtEmpty == <<>>

\* "Nice, more depth": a direction word and no family keyword
TxtNiceMoreDepth == <<"N", "i", "c", "e", ",", " ", "m", "o", "r", "e", " ", "d", "e", "p", "t", "h">>

\* "crop the dark flat area"
TxtCropDarkFlat == <<"c", "r", "o", "p", " ", "t", "h", "e", " ", "d", "a", "r", "k", " ", "f", "l", "a", "t", " ", "a", "r", "e", "a">>

\* "more vivid, sharper and warmer"
TxtMoreVivid == <<"m", "o", "r", "e", " ", "v", "i", "v", "i", "d", ",", " ", "s", "h", "a", "r", "p", "e", "r", " ", "a", "n", "d", " ", "w", "a", "r", "m", "e", "r">>

\* "less saturation, softer focus, cooler"
TxtLessSaturation == <<"l", "e", "s", "s", " ", "s", "a", "t", "u", "r", "a", "t", "i", "o", "n", ",", " ", "s", "o", "f", "t", "e", "r", " ", "f", "o", "c", "u", "s", ",", " ", "c", "o", "o", "l", "e", "r">>
\* "increase contrast and decrease brightness"
TxtIncreaseContrastDecreaseBrightness == <<"i", "n", "c", "r", "e", "a", "s", "e", " ", "c", "o", "n", "t", "r", "a", "s", "t", " ", "a", "n", "d", " ", "d", "e", "c", "r", "e", "a", "s", "e", " ", "b", "r", "i", "g", "h", "t", "n", "e", "s", "s">>

SuggestionPool ==
    { TxtIncreaseBrightness, TxtDarker, TxtMoreContrast, TxtMenosContraste,
      TxtCompositionThirds, TxtRegraUpper, TxtEmpty, TxtNiceMoreDepth,
      TxtCropDarkFlat, TxtMoreVivid, TxtLessSaturation,
      TxtIncreaseContrastDecreaseBrightness }

\* every list of at most n suggestions of the pool
SuggestionLists(n) == UNION { [1..k -> SuggestionPool] : k \in 0..n }

\* Analysis dictionaries (analyze_image, image-analyzer.py lines 43-52), the
\* fields the enhancer reads plus "faces"; a field may be absent, as
\* _parse_suggestions reads each with dict.get and a default.
AnalysisSamples ==
    { [faces |-> 0],
      [faces |-> 0, brightness |-> 1280, contrast |-> 0, rule_of_thirds |-> 0],
      [faces |-> 1, brightness |-> 0, contrast |-> Scale, rule_of_thirds |-> Tenths(2)],
      [faces |-> 0, brightness |-> 2550, contrast |-> Tenths(5), rule_of_thirds |-> Tenths(6)],
      [faces |-> 0, brightness |-> 1000, contrast |-> 500, rule_of_thirds |-> Tenths(4) - 1],
      [faces |-> 2, brightness |-> 2000, contrast |-> 2000, rule_of_thirds |-> Tenths(4)],
      [faces |-> 0, brightness |-> 2400, contrast |-> 2400, rule_of_thirds |-> Scale],
      [faces |-> 0, brightness |-> 100, contrast |-> 100] }

\* A decoded image: its size and the transforms applied to the decoded
\* pixels so far, in order, each as <<name, factor or delta>>.  Two images
\* hold the same pixels iff they agree on all three fields.
Img(w, h) == [w |-> w, h |-> h, hist |-> <<>>]

ImageSamples == { Img(300, 300), Img(4, 3) }

NoImage == [w |-> 0, h |-> 0, hist |-> <<>>]

(***************************************************************************)
(* State                                                                   *)
(***************************************************************************)
VARIABLES
    pc,           \* position in enhance_image
    infile,       \* the image stored at image_path
    suggestions,  \* the suggestion list passed to enhance_image
    analysis,     \* the analysis dictionary passed to enhance_image
    idx,          \* 1-based position of the for loop of _parse_suggestions
    adjustments,  \* the adjustments dictionary
    image,        \* the image _apply_enhancements holds
    outfile,      \* the image stored at output_path
    error,        \* the exception enhance_image raised, "none" if none
    crop_image,   \* argument of _crop_for_rule_of_thirds
    contours,     \* what cv2.findContours found: <<>> or <<bounding box of the
                  \* contour of largest area>>
    crop_result,  \* what _crop_for_rule_of_thirds returned: <<>> before the call
    edges,        \* the edge map _analyze_rule_of_thirds works on
    divisors,     \* the divisors _analyze_rule_of_thirds has divided by, in order
    score,        \* what _analyze_rule_of_thirds returned: <<>> before the call
    img_array,    \* the pixel array _adjust_warmth works on
    warm_adjustment,  \* the adjustment argument of _adjust_warmth, in units of 1 / Scale
    warm_result,  \* the array _adjust_warmth returned as an image: <<>> before the call
    app_pc,            \* position of each session's run of the script main-app.py
    uploads,           \* number of files each session has uploaded
    temp_path,         \* the image in each run's temporary file, NoUpload if none
    image_analysis,    \* each run's image_analysis, NoUpload before line 84
    analyze_calls,     \* calls of analyze_image during each session's current run
    cascade_loads,     \* cv2.CascadeClassifier objects constructed in the process
    enhanced_image_jpg, \* the image stored at <tempdir>/enhanced_image.jpg
    analysis_viz_jpg,  \* the image stored at <tempdir>/analysis_viz.jpg
    enhanced_image,    \* the enhanced image each session displays
    analysis_viz       \* the visualization each session displays

vars == << pc, infile, suggestions, analysis, idx, adjustments, image, outfile,
           error, crop_image, contours, crop_result, edges, divisors, score,
           img_array, warm_adjustment, warm_result, app_pc, uploads, temp_path,
           image_analysis, analyze_calls, cascade_loads, enhanced_image_jpg,
           analysis_viz_jpg, enhanced_image, analysis_viz >>

enhance_vars == << pc, infile, suggestions, analysis, idx, adjustments, image,
                   outfile, error >>

crop_vars == << crop_image, contours, crop_result >>

thirds_vars == << edges, divisors, score >>

\* the variables outside the image enhancer
warmth_vars == << img_array, warm_adjustment, warm_result >>

app_vars == << app_pc, uploads, temp_path, image_analysis, analyze_calls,
              cascade_loads, enhanced_image_jpg, analysis_viz_jpg, enhanced_image,
              analysis_viz >>

rest_vars == << thirds_vars, warmth_vars, app_vars >>

(***************************************************************************)
(* _parse_suggestions                                                      *)
(***************************************************************************)
\* dict.get(key, default)
Get(d, key, default) == IF key \in DOMAIN d THEN d[key] ELSE default

\* line 51: analysis.get("brightness", 128) / 255, in units of 1/Scale
CurrentBrightness(a) == (Get(a, "brightness", 1280) * Scale) \div (255 * 10)

\* line 52: analysis.get("contrast", 0.5)
CurrentContrast(a) == Get(a, "contrast", Tenths(5))

\* line 53: analysis.get("rule_of_thirds", 0.5)
CurrentRuleThirds(a) == Get(a, "rule_of_thirds", Tenths(5))

\* lines 33-40
ZeroAdjustments ==
    [ brightness |-> 0, contrast |-> 0, color |-> 0, sharpness |-> 0,
      warmth |-> 0, crop_rule_thirds |-> FALSE ]

\* BrightnessAdjust without the lower limit 0.1 of the increase
BrightnessAdjust_NoFloor(old, s, a) ==
    IF AnyIn(s, brightness_keywords)
    THEN IF AnyIn(s, brightness_increase)
         THEN Min(Tenths(5), Scale - CurrentBrightness(a))
         ELSE IF AnyIn(s, brightness_decrease)
              THEN Max(-Tenths(5), Min(-Tenths(1), 0 - CurrentBrightness(a)))
              ELSE old
    ELSE old

\* BrightnessAdjust with the decrease words tested before the increase words
BrightnessAdjust_DecreaseFirst(old, s, a) ==
    IF AnyIn(s, brightness_keywords)
    THEN IF AnyIn(s, brightness_decrease)
         THEN Max(-Tenths(5), Min(-Tenths(1), 0 - CurrentBrightness(a)))
         ELSE IF AnyIn(s, brightness_increase)
              THEN Max(Tenths(1), Min(Tenths(5), Scale - CurrentBrightness(a)))
              ELSE old
    ELSE old

\* lines 60-64; s is the lower-cased suggestion, old the value so far
BrightnessAdjust(old, s, a) ==
    IF AnyIn(s, brightness_keywords)
    THEN IF AnyIn(s, brightness_increase)
         THEN Max(Tenths(1), Min(Tenths(5), Scale - CurrentBrightness(a)))
         ELSE IF AnyIn(s, brightness_decrease)
              THEN Max(-Tenths(5), Min(-Tenths(1), 0 - CurrentBrightness(a)))
              ELSE old
    ELSE old

\* ContrastAdjust with the decrease limited at -0.5, as for brightness,
\* instead of -0.3
ContrastAdjust_BrightnessLimits(old, s, a) ==
    IF AnyIn(s, contrast_keywords)
    THEN IF AnyIn(s, contrast_increase)
         THEN Max(Tenths(1), Min(Tenths(7), Scale - CurrentContrast(a)))
         ELSE IF AnyIn(s, contrast_decrease)
              THEN Max(-Tenths(5), Min(-Tenths(1), 0 - CurrentContrast(a)))
              ELSE old
    ELSE old

\* ContrastAdjust with the delta set back to 0 by a suggestion that holds a
\* contrast keyword and no direction word
ContrastAdjust_ResetWithoutDirection(old, s, a) ==
    IF AnyIn(s, contrast_keywords)
    THEN IF AnyIn(s, contrast_increase)
         THEN Max(Tenths(1), Min(Tenths(7), Scale - CurrentContrast(a)))
         ELSE IF AnyIn(s, contrast_decrease)
              THEN Max(-Tenths(3), Min(-Tenths(1), 0 - CurrentContrast(a)))
              ELSE 0
    ELSE old

\* lines 67-71
ContrastAdjust(old, s, a) ==
    IF AnyIn(s, contrast_keywords)
    THEN IF AnyIn(s, contrast_increase)
         THEN Max(Tenths(1), Min(Tenths(7), Scale - CurrentContrast(a)))
         ELSE IF AnyIn(s, contrast_decrease)
              THEN Max(-Tenths(3), Min(-Tenths(1), 0 - CurrentContrast(a)))
              ELSE old
    ELSE old

\* ColorAdjust adding to the value so far instead of replacing it
ColorAdjust_Accumulate(old, s) ==
    IF AnyIn(s, color_keywords)
    THEN IF AnyIn(s, color_increase) THEN old + Tenths(3)
         ELSE IF AnyIn(s, color_decrease) THEN old - Tenths(2)
              ELSE old
    ELSE old

\* lines 74-78
ColorAdjust(old, s) ==
    IF AnyIn(s, color_keywords)
    THEN IF AnyIn(s, color_increase) THEN Tenths(3)
         ELSE IF AnyIn(s, color_decrease) THEN -Tenths(2)
              ELSE old
    ELSE old

\* SharpnessAdjust with the decrease as large as the increase
SharpnessAdjust_Symmetric(old, s) ==
    IF AnyIn(s, sharpness_keywords)
    THEN IF AnyIn(s, sharpness_increase) THEN Tenths(5)
         ELSE IF AnyIn(s, sharpness_decrease) THEN -Tenths(5)
              ELSE old
    ELSE old

\* lines 81-85
SharpnessAdjust(old, s) ==
    IF AnyIn(s, sharpness_keywords)
    THEN IF AnyIn(s, sharpness_increase) THEN Tenths(5)
         ELSE IF AnyIn(s, sharpness_decrease) THEN -Tenths(2)
              ELSE old
    ELSE old

\* WarmthAdjust without the keyword test of line 88: a direction word alone
\* sets the delta
WarmthAdjust_NoKeywordTest(old, s) ==
    IF AnyIn(s, warmth_increase) THEN Tenths(2)
    ELSE IF AnyIn(s, warmth_decrease) THEN -Tenths(2)
         ELSE old

\* lines 88-92
WarmthAdjust(old, s) ==
    IF AnyIn(s, warmth_keywords)
    THEN IF AnyIn(s, warmth_increase) THEN Tenths(2)
         ELSE IF AnyIn(s, warmth_decrease) THEN -Tenths(2)
              ELSE old
    ELSE old

\* CropAdjust with the threshold test written <= instead of <
CropAdjust_InclusiveThreshold(old, s, a) ==
    IF /\ AnyIn(s, composition_keywords)
       /\ AnyIn(s, rule_thirds_phrases)
       /\ CurrentRuleThirds(a) <= Tenths(4)
    THEN TRUE
    ELSE old

\* lines 95-98
CropAdjust(old, s, a) ==
    IF /\ AnyIn(s, composition_keywords)
       /\ AnyIn(s, rule_thirds_phrases)
       /\ CurrentRuleThirds(a) < Tenths(4)
    THEN TRUE
    ELSE old

\* ProcessSuggestion without line 57: the keywords are matched against the
\* suggestion as written
ProcessSuggestion_NoLower(adj, suggestion, a) ==
    LET s == suggestion
    IN  [ brightness       |-> BrightnessAdjust(adj.brightness, s, a),
          contrast         |-> ContrastAdjust(adj.contrast, s, a),
          color            |-> ColorAdjust(adj.color, s),
          sharpness        |-> SharpnessAdjust(adj.sharpness, s),
          warmth           |-> WarmthAdjust(adj.warmth, s),
          crop_rule_thirds |-> CropAdjust(adj.crop_rule_thirds, s, a) ]

\* one iteration of the for loop, lines 56-98
ProcessSuggestion(adj, suggestion, a) ==
    LET s == Lower(suggestion)
    IN  [ brightness       |-> BrightnessAdjust(adj.brightness, s, a),
          contrast         |-> ContrastAdjust(adj.contrast, s, a),
          color            |-> ColorAdjust(adj.color, s),
          sharpness        |-> SharpnessAdjust(adj.sharpness, s),
          warmth           |-> WarmthAdjust(adj.warmth, s),
          crop_rule_thirds |-> CropAdjust(adj.crop_rule_thirds, s, a) ]

(***************************************************************************)
(* _crop_for_rule_of_thirds, lines 158-205                                 *)
(***************************************************************************)
\* The bounding boxes cv2.boundingRect can return in a w x h image
\* (line 175): at least one pixel, inside the image.
BoundingBoxes(w, h) ==
    { b \in [x : 0..(w - 1), y : 0..(h - 1), w : 1..w, h : 1..h] :
        b.x + b.w <= w /\ b.y + b.h <= h }

\* The boxes the contour search can report (lines 166-175).  A single pixel
\* has no gradient, so Canny marks no edge in a 1 x 1 image.
FoundBoxes(w, h) == IF w * h = 1 THEN {} ELSE BoundingBoxes(w, h)

\* lines 178-179: x + w // 2
SubjectCenter(pos, len) == pos + len \div 2

\* ThirdsTarget with the two branches exchanged: the thirds line on the
\* subject's own side of the middle
ThirdsTarget_SameSide(subject_center, dim) ==
    IF subject_center > dim \div 2 THEN (dim * 2) \div 3 ELSE dim \div 3

\* lines 186-187
ThirdsTarget(subject_center, dim) ==
    IF subject_center > dim \div 2 THEN dim \div 3 ELSE (dim * 2) \div 3

\* lines 194-195: min(img_w, int(img_w * 0.8)); int() truncates the product,
\* which is (dim * 8) div 10 for every dim >= 0
CropSize(dim) == Min(dim, (dim * 8) \div 10)

\* CropOrigin without the lower limit 0
CropOrigin_NoLowerLimit(dim, crop, offset) == Min(dim - crop, offset)

\* CropOrigin without the upper limit dim - crop
CropOrigin_NoUpperLimit(dim, crop, offset) == Max(0, offset)

\* lines 198-199
CropOrigin(dim, crop, offset) == Max(0, Min(dim - crop, offset))

\* lines 200-201
CropEnd(dim, origin, crop) == Min(dim, origin + crop)

\* Image.crop((x1, y1, x2, y2)), line 204: a new image of the window's size
ImageCrop(img, x1, y1, x2, y2) ==
    [ w |-> x2 - x1, h |-> y2 - y1,
      hist |-> Append(img.hist, <<"crop", <<x1, y1, x2, y2>>>>) ]

\* lines 158-205; cs is what findContours returned
CropForRuleOfThirds(img, cs) ==
    IF cs = <<>>
    THEN img
    ELSE LET box == cs[1]
             subject_center_x == SubjectCenter(box.x, box.w)
             subject_center_y == SubjectCenter(box.y, box.h)
             img_w == img.w
             img_h == img.h
             target_x == ThirdsTarget(subject_center_x, img_w)
             target_y == ThirdsTarget(subject_center_y, img_h)
             offset_x == subject_center_x - target_x
             offset_y == subject_center_y - target_y
             crop_w == CropSize(img_w)
             crop_h == CropSize(img_h)
             crop_x1 == CropOrigin(img_w, crop_w, offset_x)
             crop_y1 == CropOrigin(img_h, crop_h, offset_y)
             crop_x2 == CropEnd(img_w, crop_x1, crop_w)
             crop_y2 == CropEnd(img_h, crop_y1, crop_h)
         IN  ImageCrop(img, crop_x1, crop_y1, crop_x2, crop_y2)

\* a call _crop_for_rule_of_thirds(image) of the module's function
CropCall ==
    /\ crop_result = <<>>
    /\ crop_image # NoImage
    /\ crop_result' = << CropForRuleOfThirds(crop_image, contours) >>
    /\ UNCHANGED rest_vars
    /\ UNCHANGED << crop_image, contours, enhance_vars >>

(***************************************************************************)
(* enhance_image: load, _parse_suggestions, _apply_enhancements, save      *)
(***************************************************************************)
\* lines 17-20 and 33-53: open the image, enter _parse_suggestions
EnhanceStart ==
    /\ pc = "start"
    /\ image' = infile
    /\ adjustments' = ZeroAdjustments
    /\ idx' = 1
    /\ pc' = "parse"
    /\ UNCHANGED rest_vars
    /\ UNCHANGED << infile, suggestions, analysis, outfile, error, crop_vars >>

\* lines 56-98: the loop body on the next suggestion
ParseSuggestion ==
    /\ pc = "parse"
    /\ idx <= Len(suggestions)
    /\ adjustments' = ProcessSuggestion(adjustments, suggestions[idx], analysis)
    /\ idx' = idx + 1
    /\ UNCHANGED rest_vars
    /\ UNCHANGED << pc, infile, suggestions, analysis, image, outfile, error, crop_vars >>

\* line 100, back in enhance_image at line 23
ParseReturn ==
    /\ pc = "parse"
    /\ idx > Len(suggestions)
    /\ pc' = "crop"
    /\ UNCHANGED rest_vars
    /\ UNCHANGED << infile, suggestions, analysis, idx, adjustments, image, outfile,
                    error, crop_vars >>

\* ImageEnhance.<Kind>(image).enhance(factor): a new image
Enhance(img, kind, factor) == [img EXCEPT !.hist = Append(@, <<kind, factor>>)]

\* lines 138-156
AdjustWarmth(img, adjustment) == [img EXCEPT !.hist = Append(@, <<"warmth", adjustment>>)]

\* lines 105-106.  The class body of ImageEnhancer ends at line 157: the def
\* of line 158 is at column 0, a function of the module and no attribute of
\* the instance, so self._crop_for_rule_of_thirds raises AttributeError,
\* which leaves _apply_enhancements and enhance_image.
ApplyCrop ==
    /\ pc = "crop"
    /\ IF adjustments.crop_rule_thirds
       THEN /\ error' = "AttributeError"
            /\ pc' = "failed"
       ELSE /\ pc' = "brightness"
            /\ UNCHANGED error
    /\ UNCHANGED rest_vars
    /\ UNCHANGED << infile, suggestions, analysis, idx, adjustments, image, outfile,
                    crop_vars >>

\* ApplyBrightness without the test of line 109: the enhancer always runs,
\* with factor 1 for delta 0
ApplyBrightness_Unconditional ==
    /\ pc = "brightness"
    /\ image' = Enhance(image, "brightness", Scale + adjustments.brightness)
    /\ pc' = "contrast"
    /\ UNCHANGED rest_vars
    /\ UNCHANGED << infile, suggestions, analysis, idx, adjustments, outfile, error,
                    crop_vars >>

\* lines 109-112
ApplyBrightness ==
    /\ pc = "brightness"
    /\ image' = IF adjustments.brightness # 0
                THEN Enhance(image, "brightness", Scale + adjustments.brightness)
                ELSE image
    /\ pc' = "contrast"
    /\ UNCHANGED rest_vars
    /\ UNCHANGED << infile, suggestions, analysis, idx, adjustments, outfile, error,
                    crop_vars >>

\* lines 115-118
ApplyContrast ==
    /\ pc = "contrast"
    /\ image' = IF adjustments.contrast # 0
                THEN Enhance(image, "contrast", Scale + adjustments.contrast)
                ELSE image
    /\ pc' = "color"
    /\ UNCHANGED rest_vars
    /\ UNCHANGED << infile, suggestions, analysis, idx, adjustments, outfile, error,
                    crop_vars >>

\* lines 121-124
ApplyColor ==
    /\ pc = "color"
    /\ image' = IF adjustments.color # 0
                THEN Enhance(image, "color", Scale + adjustments.color)
                ELSE image
    /\ pc' = "sharpness"
    /\ UNCHANGED rest_vars
    /\ UNCHANGED << infile, suggestions, analysis, idx, adjustments, outfile, error,
                    crop_vars >>

\* lines 127-130
ApplySharpness ==
    /\ pc = "sharpness"
    /\ image' = IF adjustments.sharpness # 0
                THEN Enhance(image, "sharpness", Scale + adjustments.sharpness)
                ELSE image
    /\ pc' = "warmth"
    /\ UNCHANGED rest_vars
    /\ UNCHANGED << infile, suggestions, analysis, idx, adjustments, outfile, error,
                    crop_vars >>

\* lines 133-134
ApplyWarmth ==
    /\ pc = "warmth"
    /\ image' = IF adjustments.warmth # 0
                THEN AdjustWarmth(image, adjustments.warmth)
                ELSE image
    /\ pc' = "return"
    /\ UNCHANGED rest_vars
    /\ UNCHANGED << infile, suggestions, analysis, idx, adjustments, outfile, error,
                    crop_vars >>

\* Image.save(output_path, quality=95), line 27: the encoding is lossy
ImageSave(img, quality) == [img EXCEPT !.hist = Append(@, <<"save", quality>>)]

\* line 136, then lines 26-29: save the returned image at output_path
EnhanceSave ==
    /\ pc = "return"
    /\ outfile' = ImageSave(image, 95)
    /\ pc' = "done"
    /\ UNCHANGED rest_vars
    /\ UNCHANGED << infile, suggestions, analysis, idx, adjustments, image, error,
                    crop_vars >>

(***************************************************************************)
(* ImageEnhancer._adjust_warmth on the pixels                              *)
(*                                                                         *)
(* A pixel array is [w, h, px]: px maps every position <<x, y>> to the     *)
(* uint8 values <<red, green, blue>> of the pixel.  A product of a channel *)
(* value and a factor is a fraction n / d of integers.                     *)
(***************************************************************************)
Array(w, h, px) == [w |-> w, h |-> h, px |-> px]

NoArray == Array(0, 0, <<>>)

\* the store without np.clip: the product cast to uint8, which wraps
StoreUInt8_NoClip(n, d) == (n \div d) % (255 + 1)

\* lines 147-148, 152-153: np.clip(n / d, 0, 255) stored into the uint8 array,
\* a store that drops the fraction
StoreUInt8(n, d) == Max(0, Min(255 * d, n)) \div d

\* channel * (1 + adjustment) stored
Enhanced(channel, adj) == StoreUInt8(channel * (Scale + adj), Scale)

\* channel * (1 - adjustment / 2) stored
Reduced(channel, adj) == StoreUInt8(channel * (2 * Scale - adj), 2 * Scale)

\* lines 145-153 on one pixel
WarmPixel(p, adj) ==
    IF adj > 0
    THEN << Enhanced(p[1], adj), p[2], Reduced(p[3], adj) >>
    ELSE << Reduced(p[1], -adj), p[2], Enhanced(p[3], -adj) >>

\* lines 141-156
AdjustWarmthArray(arr, adj) ==
    [arr EXCEPT !.px = [pos \in DOMAIN arr.px |-> WarmPixel(arr.px[pos], adj)]]

\* a call _adjust_warmth(image, adjustment)
AdjustWarmthCall ==
    /\ img_array # NoArray
    /\ warm_result = <<>>
    /\ warm_result' = << AdjustWarmthArray(img_array, warm_adjustment) >>
    /\ UNCHANGED << img_array, warm_adjustment, enhance_vars, crop_vars, thirds_vars,
                    app_vars >>

WarmthIdle ==
    /\ img_array = NoArray
    /\ warm_adjustment = 0
    /\ warm_result = <<>>

(***************************************************************************)
(* main-app.py: the script runs once per upload of a session, every        *)
(* session in a thread of one process, on the services load_services       *)
(* built once (lines 18-41).  An uploaded image is named by the session    *)
(* and the number of the upload, << s, n >>.                               *)
(***************************************************************************)
Sessions == { "s1", "s2" }

NoUpload == << >>

\* the variables outside the application's script
not_app_vars == << enhance_vars, crop_vars, thirds_vars, warmth_vars >>

\* lines 61-77: a session uploads a file; the script writes it to a
\* temporary file of its own
Upload(s) ==
    /\ app_pc[s] = "idle"
    /\ uploads[s] < MaxUploads
    /\ uploads' = [uploads EXCEPT ![s] = @ + 1]
    /\ temp_path' = [temp_path EXCEPT ![s] = << s, uploads[s] + 1 >>]
    /\ image_analysis' = [image_analysis EXCEPT ![s] = NoUpload]
    /\ analyze_calls' = [analyze_calls EXCEPT ![s] = 0]
    /\ enhanced_image' = [enhanced_image EXCEPT ![s] = NoUpload]
    /\ analysis_viz' = [analysis_viz EXCEPT ![s] = NoUpload]
    /\ app_pc' = [app_pc EXCEPT ![s] = "analyze"]
    /\ UNCHANGED not_app_vars
    /\ UNCHANGED << cascade_loads, enhanced_image_jpg, analysis_viz_jpg >>

\* line 84, ImageAnalyzer.analyze_image (image-analyzer.py lines 14-52), which
\* calls _detect_faces
AnalyzeImage(s) ==
    /\ app_pc[s] = "analyze"
    /\ analyze_calls' = [analyze_calls EXCEPT ![s] = @ + 1]
    /\ cascade_loads' = cascade_loads + 1
    /\ image_analysis' = [image_analysis EXCEPT ![s] = temp_path[s]]
    /\ app_pc' = [app_pc EXCEPT ![s] = "enhance"]
    /\ UNCHANGED not_app_vars
    /\ UNCHANGED << uploads, temp_path, enhanced_image_jpg, analysis_viz_jpg,
                    enhanced_image, analysis_viz >>

\* lines 86-146: the suggestions are made and enhance_image writes
\* <tempdir>/enhanced_image.jpg, or raises (the crop step) and the run
\* continues at line 196
EnhanceImage(s) ==
    /\ app_pc[s] = "enhance"
    /\ \E raises \in BOOLEAN :
          IF raises
          THEN /\ app_pc' = [app_pc EXCEPT ![s] = "except"]
               /\ UNCHANGED enhanced_image_jpg
          ELSE /\ enhanced_image_jpg' = temp_path[s]
               /\ app_pc' = [app_pc EXCEPT ![s] = "visualize"]
    /\ UNCHANGED not_app_vars
    /\ UNCHANGED << uploads, temp_path, image_analysis, analyze_calls, cascade_loads,
                    analysis_viz_jpg, enhanced_image, analysis_viz >>

\* lines 149-153, ImageAnalyzer.save_analysis_visualization (image-analyzer.py
\* lines 152-201): a classifier constructed at line 181, analyze_image again
\* at line 188 and with it the classifier of line 143, then
\* <tempdir>/analysis_viz.jpg written at line 199
SaveAnalysisVisualization(s) ==
    /\ app_pc[s] = "visualize"
    /\ cascade_loads' = cascade_loads + 2
    /\ analyze_calls' = [analyze_calls EXCEPT ![s] = @ + 1]
    /\ analysis_viz_jpg' = temp_path[s]
    /\ app_pc' = [app_pc EXCEPT ![s] = "show_enhanced"]
    /\ UNCHANGED not_app_vars
    /\ UNCHANGED << uploads, temp_path, image_analysis, enhanced_image_jpg,
                    enhanced_image, analysis_viz >>

\* lines 186-189
ShowEnhanced(s) ==
    /\ app_pc[s] = "show_enhanced"
    /\ enhanced_image' = [enhanced_image EXCEPT ![s] = enhanced_image_jpg]
    /\ app_pc' = [app_pc EXCEPT ![s] = "show_viz"]
    /\ UNCHANGED not_app_vars
    /\ UNCHANGED << uploads, temp_path, image_analysis, analyze_calls, cascade_loads,
                    enhanced_image_jpg, analysis_viz_jpg, analysis_viz >>

\* lines 191-194
ShowVisualization(s) ==
    /\ app_pc[s] = "show_viz"
    /\ analysis_viz' = [analysis_viz EXCEPT ![s] = analysis_viz_jpg]
    /\ app_pc' = [app_pc EXCEPT ![s] = "finally"]
    /\ UNCHANGED not_app_vars
    /\ UNCHANGED << uploads, temp_path, image_analysis, analyze_calls, cascade_loads,
                    enhanced_image_jpg, analysis_viz_jpg, enhanced_image >>

\* lines 196-197
ShowError(s) ==
    /\ app_pc[s] = "except"
    /\ app_pc' = [app_pc EXCEPT ![s] = "finally"]
    /\ UNCHANGED not_app_vars
    /\ UNCHANGED << uploads, temp_path, image_analysis, analyze_calls, cascade_loads,
                    enhanced_image_jpg, analysis_viz_jpg, enhanced_image, analysis_viz >>

\* lines 199-202; the run of the script ends
CleanUp(s) ==
    /\ app_pc[s] = "finally"
    /\ temp_path' = [temp_path EXCEPT ![s] = NoUpload]
    /\ app_pc' = [app_pc EXCEPT ![s] = "idle"]
    /\ UNCHANGED not_app_vars
    /\ UNCHANGED << uploads, image_analysis, analyze_calls, cascade_loads,
                    enhanced_image_jpg, analysis_viz_jpg, enhanced_image, analysis_viz >>

AppIdle ==
    /\ app_pc = [s \in Sessions |-> "idle"]
    /\ uploads = [s \in Sessions |-> 0]
    /\ temp_path = [s \in Sessions |-> NoUpload]
    /\ image_analysis = [s \in Sessions |-> NoUpload]
    /\ analyze_calls = [s \in Sessions |-> 0]
    /\ cascade_loads = 0
    /\ enhanced_image_jpg = NoUpload
    /\ analysis_viz_jpg = NoUpload
    /\ enhanced_image = [s \in Sessions |-> NoUpload]
    /\ analysis_viz = [s \in Sessions |-> NoUpload]

(***************************************************************************)
(* ImageAnalyzer._analyze_rule_of_thirds                                   *)
(*                                                                         *)
(* An edge map is [w, h, px]: px is the set of the positions <<x, y>> at   *)
(* which cv2.Canny left a non-zero value.  A float that is not negative is *)
(* a pair <<n, d>> of naturals standing for n / d; d = 0 stands for what   *)
(* numpy's float division yields on a zero divisor, nan for <<0, 0>> and   *)
(* inf for <<n, 0>> with n > 0.                                            *)
(***************************************************************************)
EdgeMap(w, h, px) == [w |-> w, h |-> h, px |-> px]

NoEdgeMap == EdgeMap(0, 0, {})

\* an int as a float
Float(n) == << n, 1 >>

\* numpy's a / b on floats that are not negative: a RuntimeWarning and nan or
\* inf on a zero divisor, no exception
FloatDiv(a, b) == << a[1] * b[2], a[2] * b[1] >>

IsNaN(a) == a[1] = 0 /\ a[2] = 0

IsZero(a) == a[1] = 0 /\ a[2] > 0

\* a < b on floats; a comparison with nan is False
FloatLess(a, b) ==
    /\ ~IsNaN(a)
    /\ ~IsNaN(b)
    /\ IF a[2] = 0 THEN FALSE
       ELSE IF b[2] = 0 THEN TRUE
       ELSE a[1] * b[2] < b[1] * a[2]

\* min(1.0, value) without the comparison: the value itself
UnitMin_NoClamp(value) == value

\* line 99, min(1.0, value): the second argument only when it is less than
\* the first
UnitMin(value) == IF FloatLess(value, Float(1)) THEN value ELSE Float(1)

\* line 78, np.sum(edges > 0)
TotalEdges(e) == Cardinality(e.px)

\* the test of line 79 never true
NoEdges_Never(total_edges) == FALSE

\* line 79
NoEdges(total_edges) == total_edges = 0

\* lines 70-75
IntersectionRegions(e) ==
    LET h_third == e.h \div 3
        w_third == e.w \div 3
    IN  << << w_third, h_third >>, << w_third * 2, h_third >>,
           << w_third, h_third * 2 >>, << w_third * 2, h_third * 2 >> >>

\* RegionSize with a fifth of the smaller side instead of a tenth
RegionSize_Fifth(e) == Min(e.h, e.w) \div 5

\* line 83
RegionSize(e) == Min(e.h, e.w) \div 10

\* lines 86-88: the slice edges[y1:y2, x1:x2] around the i-th intersection,
\* as <<x1, y1, x2, y2>>
Region(e, i) ==
    LET region_size == RegionSize(e)
        x == IntersectionRegions(e)[i][1]
        y == IntersectionRegions(e)[i][2]
    IN  << Max(0, x - region_size), Max(0, y - region_size),
           Min(e.w, x + region_size), Min(e.h, y + region_size) >>

\* line 89, np.sum(region > 0)
RegionEdges(e, i) ==
    LET r == Region(e, i)
    IN  Cardinality({ p \in e.px : /\ r[1] <= p[1] /\ p[1] < r[3]
                                   /\ r[2] <= p[2] /\ p[2] < r[4] })

\* lines 82-89
IntersectionEdgeSum(e) ==
    RegionEdges(e, 1) + RegionEdges(e, 2) + RegionEdges(e, 3) + RegionEdges(e, 4)

\* line 92
RegionPixels(e) == 4 * (RegionSize(e) * 2) * (RegionSize(e) * 2)

\* line 93
TotalPixels(e) == e.h * e.w

\* line 95
ExpectedRandomProportion(e) == FloatDiv(Float(RegionPixels(e)), Float(TotalPixels(e)))

\* line 96
ActualProportion(e) == FloatDiv(Float(IntersectionEdgeSum(e)), Float(TotalEdges(e)))

\* line 99, expected_random_proportion * 2
ScoreDivisor(e) ==
    << ExpectedRandomProportion(e)[1] * 2, ExpectedRandomProportion(e)[2] >>

\* a call _analyze_rule_of_thirds(image), from the edge map of line 63 on
AnalyzeRuleOfThirds ==
    /\ edges # NoEdgeMap
    /\ score = <<>>
    /\ IF NoEdges(TotalEdges(edges))
       THEN /\ score' = << Float(0) >>
            /\ UNCHANGED divisors
       ELSE /\ divisors' = << Float(TotalPixels(edges)), Float(TotalEdges(edges)),
                              ScoreDivisor(edges) >>
            /\ score' = << UnitMin(FloatDiv(ActualProportion(edges),
                                            ScoreDivisor(edges))) >>
    /\ UNCHANGED << edges, enhance_vars, crop_vars, warmth_vars, app_vars >>

ThirdsIdle ==
    /\ edges = NoEdgeMap
    /\ divisors = <<>>
    /\ score = <<>>

\* the components outside the image enhancer at rest
RestIdle == ThirdsIdle /\ WarmthIdle /\ AppIdle

CropIdle ==
    /\ crop_image = NoImage
    /\ contours = <<>>
    /\ crop_result = <<>>

EnhanceIdle ==
    /\ pc = "idle"
    /\ infile = NoImage
    /\ suggestions = <<>>
    /\ analysis = [faces |-> 0]
    /\ idx = 0
    /\ adjustments = ZeroAdjustments
    /\ image = NoImage
    /\ outfile = NoImage
    /\ error = "none"

(***************************************************************************)
(* Spec: one call of enhance_image on every input of the samples           *)
(***************************************************************************)
Init ==
    /\ pc = "start"
    /\ infile \in ImageSamples
    /\ suggestions \in SuggestionLists(MaxSuggestions)
    /\ analysis \in AnalysisSamples
    /\ idx = 0
    /\ adjustments = ZeroAdjustments
    /\ image = NoImage
    /\ outfile = NoImage
    /\ error = "none"
    /\ CropIdle
    /\ RestIdle

Next ==
    \/ EnhanceStart
    \/ ParseSuggestion
    \/ ParseReturn
    \/ ApplyCrop
    \/ ApplyBrightness
    \/ ApplyContrast
    \/ ApplyColor
    \/ ApplySharpness
    \/ ApplyWarmth
    \/ EnhanceSave

Spec == Init /\ [][Next]_vars

(***************************************************************************)
(* SpecCrop: the crop solver on every image of at most MaxDim x MaxDim     *)
(* pixels and every outcome of the contour search                          *)
(***************************************************************************)
InitCrop ==
    /\ EnhanceIdle
    /\ \E w \in 1..MaxDim, h \in 1..MaxDim :
          /\ crop_image = Img(w, h)
          /\ contours \in {<<>>} \cup { <<b>> : b \in FoundBoxes(w, h) }
    /\ crop_result = <<>>
    /\ RestIdle

NextCrop == CropCall

SpecCrop == InitCrop /\ [][NextCrop]_vars

(***************************************************************************)
(* SpecThirds: _analyze_rule_of_thirds on edge maps of at most             *)
(* MaxSide x MaxSide pixels                                                *)
(***************************************************************************)
Positions(w, h) == (0 .. w - 1) \X (0 .. h - 1)

\* no edge, an edge everywhere, one edge pixel, one row or one column of edges
EdgeMaps(w, h) ==
    { EdgeMap(w, h, {}), EdgeMap(w, h, Positions(w, h)) }
    \cup { EdgeMap(w, h, {p}) : p \in Positions(w, h) }
    \cup { EdgeMap(w, h, { p \in Positions(w, h) : p[2] = y }) : y \in 0 .. h - 1 }
    \cup { EdgeMap(w, h, { p \in Positions(w, h) : p[1] = x }) : x \in 0 .. w - 1 }

InitThirds ==
    /\ EnhanceIdle
    /\ CropIdle
    /\ WarmthIdle
    /\ AppIdle
    /\ \E w \in 1 .. MaxSide, h \in 1 .. MaxSide : edges \in EdgeMaps(w, h)
    /\ divisors = <<>>
    /\ score = <<>>

NextThirds == AnalyzeRuleOfThirds

SpecThirds == InitThirds /\ [][NextThirds]_vars

(***************************************************************************)
(* SpecWarmth: _adjust_warmth with the adjustments _parse_suggestions can  *)
(* set, on arrays of at most MaxArraySide x MaxArraySide pixels that hold  *)
(* every channel value                                                     *)
(***************************************************************************)
ChannelValues == 0 .. 255

\* an array whose pixel at <<0, 0>> is <<v, g, 255 - v>>, the others shifted
SampleArray(w, h, v, g) ==
    Array(w, h, [pos \in (0 .. w - 1) \X (0 .. h - 1) |->
                    << (v + 100 * pos[1] + 50 * pos[2]) % (255 + 1), g,
                       (255 - v + 30 * pos[1] + 200 * pos[2]) % (255 + 1) >>])

\* the values of adjustments["warmth"] that are not 0: lines 90, 92
WarmthAdjustments == { Tenths(2), -Tenths(2) }

InitWarmth ==
    /\ EnhanceIdle
    /\ CropIdle
    /\ ThirdsIdle
    /\ AppIdle
    /\ \E w \in 1 .. MaxArraySide, h \in 1 .. MaxArraySide, v \in ChannelValues,
          g \in {0, 128, 255} :
          img_array = SampleArray(w, h, v, g)
    /\ warm_adjustment \in WarmthAdjustments
    /\ warm_result = <<>>

NextWarmth == AdjustWarmthCall

SpecWarmth == InitWarmth /\ [][NextWarmth]_vars

(***************************************************************************)
(* SpecApp: two sessions of the application, each uploading at most        *)
(* MaxUploads files, their runs interleaved                                *)
(***************************************************************************)
InitApp ==
    /\ EnhanceIdle
    /\ CropIdle
    /\ RestIdle

NextApp ==
    \/ \E s \in Sessions : Upload(s)
    \/ \E s \in Sessions : AnalyzeImage(s)
    \/ \E s \in Sessions : EnhanceImage(s)
    \/ \E s \in Sessions : SaveAnalysisVisualization(s)
    \/ \E s \in Sessions : ShowEnhanced(s)
    \/ \E s \in Sessions : ShowVisualization(s)
    \/ \E s \in Sessions : ShowError(s)
    \/ \E s \in Sessions : CleanUp(s)

SpecApp == InitApp /\ [][NextApp]_vars

(***************************************************************************)
(* Properties                                                              *)
(***************************************************************************)
\* _parse_suggestions has returned to enhance_image (line 20 is complete)
Parsed == pc = "crop"

\* character c is the lower-case letter d or its upper-case form
SameLetter(c, d) ==
    \/ c = d
    \/ c \in DOMAIN UpperToLower /\ UpperToLower[c] = d

\* text t contains phrase k in some letter case
ContainsAnyCase(t, k) ==
    \E i \in 1..(Len(t) - Len(k) + 1) : \A j \in 1..Len(k) : SameLetter(t[i + j - 1], k[j])

\* text t contains, in any letter case, one of the phrases of K
Mentions(t, K) == \E k \in K : ContainsAnyCase(t, k)

\* the texts of the pool that name the rule of thirds, in any letter case
ThirdsTexts == { t \in SuggestionPool : Mentions(t, rule_thirds_phrases) }

\* some suggestion of the list names the rule of thirds
NamesRuleOfThirds(list) == \E i \in 1..Len(list) : list[i] \in ThirdsTexts

\* the analysis holds a rule-of-thirds score of at least 0.4, or none (0.5)
WellComposed(a) ==
    "rule_of_thirds" \notin DOMAIN a \/ 10 * a.rule_of_thirds >= 4 * Scale

\* C1: with a rule-of-thirds score of at least 0.4, or with none in the
\* analysis, crop_rule_thirds is False after every number of suggestions
\* processed and in the dictionary _parse_suggestions returns, whatever the
\* suggestions say.
C1_NoCropWhenWellComposed ==
    WellComposed(analysis) => adjustments.crop_rule_thirds = FALSE

\* C1 witness: the score is exactly 0.4, a suggestion names the rule of
\* thirds, and the returned flag is False.
C1_Witness ==
    /\ Parsed
    /\ "rule_of_thirds" \in DOMAIN analysis
    /\ 10 * analysis.rule_of_thirds = 4 * Scale
    /\ NamesRuleOfThirds(suggestions)
    /\ adjustments.crop_rule_thirds = FALSE

\* C2: with a rule-of-thirds score below 0.4, a list in which some
\* suggestion names the rule of thirds (either phrase, any position, any
\* letter case) returns crop_rule_thirds = True.
C2_CropWhenPoorlyComposed ==
    ( /\ Parsed
      /\ ~WellComposed(analysis)
      /\ NamesRuleOfThirds(suggestions) )
    => adjustments.crop_rule_thirds = TRUE

\* C2 witness: the upper-case Portuguese phrase comes first and a suggestion
\* with another composition keyword follows it; the flag is still True.
C2_Witness ==
    /\ Parsed
    /\ ~WellComposed(analysis)
    /\ Len(suggestions) >= 2
    /\ suggestions[1] = TxtRegraUpper
    /\ suggestions[2] = TxtCropDarkFlat
    /\ adjustments.crop_rule_thirds = TRUE

\* the crop solver was called, found a contour and returned
Cropped == crop_result # <<>> /\ contours # <<>>

\* the window <<x1, y1, x2, y2>> the returned image was cut from
CropWindow == crop_result[1].hist[Len(crop_result[1].hist)][2]

\* C3: a cropped output keeps at least 80% of the width and of the height
\* of the image: 5 * outW >= 4 * W and 5 * outH >= 4 * H.
C3_CropKeepsEightyPercent ==
    Cropped =>
        /\ 5 * crop_result[1].w >= 4 * crop_image.w
        /\ 5 * crop_result[1].h >= 4 * crop_image.h

\* v limited to the interval lo..hi
Clamp(v, lo, hi) == IF v < lo THEN lo ELSE IF v > hi THEN hi ELSE v

\* C4: on each axis the crop origin is clamp(subject_center - target, 0,
\* dimension - crop_size), and the window [origin, origin + crop_size] lies
\* inside the image: 0 <= x1, x2 = x1 + crop_w <= W, 0 <= y1,
\* y2 = y1 + crop_h <= H.
C4_CropWindowInBounds ==
    Cropped =>
        LET box == contours[1]
            W == crop_image.w
            H == crop_image.h
            cx == SubjectCenter(box.x, box.w)
            cy == SubjectCenter(box.y, box.h)
            x1 == CropWindow[1]
            y1 == CropWindow[2]
            x2 == CropWindow[3]
            y2 == CropWindow[4]
        IN  /\ x1 = Clamp(cx - ThirdsTarget(cx, W), 0, W - CropSize(W))
            /\ y1 = Clamp(cy - ThirdsTarget(cy, H), 0, H - CropSize(H))
            /\ 0 <= x1 /\ x2 = x1 + CropSize(W) /\ x2 <= W
            /\ 0 <= y1 /\ y2 = y1 + CropSize(H) /\ y2 <= H

\* C4 witness: the offset exceeds the slack on one axis and is negative on
\* the other, so both limits of the clamp act.
C4_Witness ==
    /\ Cropped
    /\ LET box == contours[1]
           cx == SubjectCenter(box.x, box.w)
           cy == SubjectCenter(box.y, box.h)
       IN  /\ cx - ThirdsTarget(cx, crop_image.w) > crop_image.w - CropSize(crop_image.w)
           /\ cy - ThirdsTarget(cy, crop_image.h) < 0
    /\ CropWindow[1] > 0
    /\ CropWindow[2] = 0

\* every delta is 0 and the crop flag is False
IsZeroVector(adj) ==
    /\ adj.brightness = 0 /\ adj.contrast = 0 /\ adj.color = 0
    /\ adj.sharpness = 0 /\ adj.warmth = 0
    /\ adj.crop_rule_thirds = FALSE

\* positions of enhance_image inside or just after _apply_enhancements
InApply == pc \in {"brightness", "contrast", "color", "sharpness", "warmth", "return"}

\* C5: with the zero vector, no transform is applied at any step of
\* _apply_enhancements (none with factor 1 either) and the image it returns
\* is its input, pixel for pixel; no error is raised.
C5_ZeroVectorIsNoOp ==
    (InApply /\ IsZeroVector(adjustments)) =>
        /\ image = infile
        /\ image.hist = <<>>
        /\ error = "none"

\* C5 witness: _apply_enhancements returns under the zero vector.
C5_Witness ==
    /\ pc = "return"
    /\ IsZeroVector(adjustments)
    /\ image = infile

\* the names of the transforms applied to an image, in order
TransformNames(img) == [i \in 1..Len(img.hist) |-> img.hist[i][1]]

\* the steps an adjustment vector enables, in the order crop, brightness,
\* contrast, color, sharpness, warmth
EnabledSteps(adj) ==
    (IF adj.crop_rule_thirds THEN <<"crop">> ELSE <<>>)
    \o (IF adj.brightness # 0 THEN <<"brightness">> ELSE <<>>)
    \o (IF adj.contrast # 0 THEN <<"contrast">> ELSE <<>>)
    \o (IF adj.color # 0 THEN <<"color">> ELSE <<>>)
    \o (IF adj.sharpness # 0 THEN <<"sharpness">> ELSE <<>>)
    \o (IF adj.warmth # 0 THEN <<"warmth">> ELSE <<>>)

\* C6: when _apply_enhancements is over, the transforms it ran are exactly
\* the enabled steps, each once, in the order crop, brightness, contrast,
\* color, sharpness, warmth, each on the output of the one before.
C6_FixedTransformOrder ==
    pc \in {"return", "failed"} => TransformNames(image) = EnabledSteps(adjustments)

\* the families of deltas and their tables
DeltaFamilies == {"brightness", "contrast", "color", "sharpness", "warmth"}

FamilyKeywords(f) ==
    CASE f = "brightness" -> brightness_keywords
      [] f = "contrast" -> contrast_keywords
      [] f = "color" -> color_keywords
      [] f = "sharpness" -> sharpness_keywords
      [] f = "warmth" -> warmth_keywords

FamilyIncrease(f) ==
    CASE f = "brightness" -> brightness_increase
      [] f = "contrast" -> contrast_increase
      [] f = "color" -> color_increase
      [] f = "sharpness" -> sharpness_increase
      [] f = "warmth" -> warmth_increase

FamilyDecrease(f) ==
    CASE f = "brightness" -> brightness_decrease
      [] f = "contrast" -> contrast_decrease
      [] f = "color" -> color_decrease
      [] f = "sharpness" -> sharpness_decrease
      [] f = "warmth" -> warmth_decrease

\* text t asks for an increase of family f: a keyword of the family and an
\* increase word of its vocabulary
AsksIncrease(f, t) == Mentions(t, FamilyKeywords(f)) /\ Mentions(t, FamilyIncrease(f))

\* text t asks for a decrease of family f: a keyword of the family, a
\* decrease word of its vocabulary and no increase word
AsksDecrease(f, t) ==
    /\ Mentions(t, FamilyKeywords(f))
    /\ Mentions(t, FamilyDecrease(f))
    /\ ~Mentions(t, FamilyIncrease(f))

\* the pairs <<family, text of the pool>>, those where the text asks for an
\* increase of the family, and those where it asks for a decrease
FamilyTexts == { <<f, t>> : f \in DeltaFamilies, t \in SuggestionPool }

IncreaseAsked == { p \in FamilyTexts : AsksIncrease(p[1], p[2]) }

DecreaseAsked == { p \in FamilyTexts : AsksDecrease(p[1], p[2]) }

\* text t matches family f with a direction
SetsFamily(f, t) == <<f, t>> \in IncreaseAsked \cup DecreaseAsked

\* the positions of the list that match family f with a direction
SettingPositions(f, list) == { i \in 1..Len(list) : SetsFamily(f, list[i]) }

\* the largest number of a non-empty set of numbers
Largest(S) == CHOOSE i \in S : \A j \in S : j <= i

\* the brightness of the analysis in tenths, 128 when the analysis has none
BrightnessTenths(a) == IF "brightness" \in DOMAIN a THEN a.brightness ELSE 128 * 10

\* the contrast of the analysis in units of 1/Scale, 0.5 when it has none
ContrastUnits(a) == IF "contrast" \in DOMAIN a THEN a.contrast ELSE Scale \div 2

\* C7: if the last suggestion that matches brightness with a direction asks
\* for an increase, the returned brightness delta d is
\* clamp(1 - brightness / 255, 0.1, 0.5); if it asks for a decrease, d is
\* clamp(0 - brightness / 255, -0.5, -0.1).  Both sides are multiplied by
\* 2550 * Scale: d is adjustments.brightness / Scale and brightness is
\* BrightnessTenths / 10.
C7_BrightnessDelta ==
    Parsed =>
        LET S == SettingPositions("brightness", suggestions)
            b == BrightnessTenths(analysis)
            d == adjustments.brightness
        IN  S # {} =>
                /\ <<"brightness", suggestions[Largest(S)]>> \in IncreaseAsked =>
                       2550 * d = Scale * Clamp(2550 - b, 255, 5 * 255)
                /\ <<"brightness", suggestions[Largest(S)]>> \in DecreaseAsked =>
                       2550 * d = Scale * Clamp(0 - b, -(5 * 255), -255)

\* C7 witness: brightness 128 and the one suggestion "increase brightness"
\* return 1 - 128/255 = 127/255, about 0.498.
C7_Witness ==
    /\ Parsed
    /\ suggestions = << TxtIncreaseBrightness >>
    /\ BrightnessTenths(analysis) = 1280
    /\ 255 * adjustments.brightness = 127 * Scale

\* C8: if the last suggestion that matches contrast with a direction asks
\* for an increase, the returned contrast delta d is
\* clamp(1 - contrast, 0.1, 0.7); if it asks for a decrease, d is
\* clamp(-contrast, -0.3, -0.1).  Both sides are multiplied by 10 * Scale.
C8_ContrastDelta ==
    Parsed =>
        LET S == SettingPositions("contrast", suggestions)
            c == ContrastUnits(analysis)
            d == adjustments.contrast
        IN  S # {} =>
                /\ <<"contrast", suggestions[Largest(S)]>> \in IncreaseAsked =>
                       10 * d = Clamp(10 * (Scale - c), Scale, 7 * Scale)
                /\ <<"contrast", suggestions[Largest(S)]>> \in DecreaseAsked =>
                       10 * d = Clamp(0 - 10 * c, -(3 * Scale), -Scale)

\* C8 witness: a decrease of a contrast above 0.3 returns -0.3, after an
\* earlier suggestion asked for an increase.
C8_Witness ==
    /\ Parsed
    /\ suggestions = << TxtMoreContrast, TxtMenosContraste >>
    /\ 10 * ContrastUnits(analysis) > 3 * Scale
    /\ 10 * adjustments.contrast = -(3 * Scale)

\* text t contains a keyword of some family, composition included
MentionsAnyFamily(t) ==
    \/ \E f \in DeltaFamilies : Mentions(t, FamilyKeywords(f))
    \/ Mentions(t, composition_keywords)

\* the texts of the pool that contain no family keyword
KeywordFreeTexts == { t \in SuggestionPool : ~MentionsAnyFamily(t) }

\* C9: _parse_suggestions raises nothing, on any list and any analysis, and
\* a list none of whose suggestions contains a family keyword returns the
\* zero vector.
C9_ParseNeverFails ==
    /\ pc \in {"parse", "crop"} => error = "none"
    /\ ( /\ Parsed
         /\ \A i \in 1..Len(suggestions) : suggestions[i] \in KeywordFreeTexts )
       => IsZeroVector(adjustments)

\* C9 witness: an empty string and a text with a direction word but no
\* family keyword return the zero vector.
C9_Witness ==
    /\ Parsed
    /\ suggestions = << TxtEmpty, TxtNiceMoreDepth >>
    /\ IsZeroVector(adjustments)
    /\ error = "none"

\* the delta of family f that _parse_suggestions returns for the one-element
\* list <<t>>: the family's branch of the loop body on the initial value 0
AloneDelta(f, t, a) ==
    CASE f = "brightness" -> BrightnessAdjust(0, Lower(t), a)
      [] f = "contrast" -> ContrastAdjust(0, Lower(t), a)
      [] f = "color" -> ColorAdjust(0, Lower(t))
      [] f = "sharpness" -> SharpnessAdjust(0, Lower(t))
      [] f = "warmth" -> WarmthAdjust(0, Lower(t))

\* C10: for each of the five delta families, the returned delta is the one
\* the last suggestion that sets the family returns alone.
C10_LastMatchWins ==
    Parsed =>
        \A f \in DeltaFamilies :
            LET S == SettingPositions(f, suggestions)
            IN  S # {} =>
                    adjustments[f] = AloneDelta(f, suggestions[Largest(S)], analysis)

\* C10 witness: two suggestions set color, sharpness and warmth one after the
\* other with opposite signs; the deltas returned are those of the second.
C10_Witness ==
    /\ Parsed
    /\ suggestions = << TxtMoreVivid, TxtLessSaturation >>
    /\ adjustments.color = -Tenths(2)
    /\ adjustments.sharpness = -Tenths(2)
    /\ adjustments.warmth = -Tenths(2)

\* delta d, in units of 1/Scale, is between lo and hi tenths
InTenths(d, lo, hi) == lo * Scale <= 10 * d /\ 10 * d <= hi * Scale

\* C11: after any number of suggestions the brightness delta is 0 or in
\* [0.1, 0.5] or in [-0.5, -0.1]; the contrast delta is 0 or in [0.1, 0.7] or
\* in [-0.3, -0.1]; the color delta is 0, 0.3 or -0.2; the sharpness delta is
\* 0, 0.5 or -0.2; the warmth delta is 0, 0.2 or -0.2.
C11_DeltaRanges ==
    /\ \/ adjustments.brightness = 0
       \/ InTenths(adjustments.brightness, 1, 5)
       \/ InTenths(adjustments.brightness, -5, -1)
    /\ \/ adjustments.contrast = 0
       \/ InTenths(adjustments.contrast, 1, 7)
       \/ InTenths(adjustments.contrast, -3, -1)
    /\ \E n \in {0, 3, -2} : 10 * adjustments.color = n * Scale
    /\ \E n \in {0, 5, -2} : 10 * adjustments.sharpness = n * Scale
    /\ \E n \in {0, 2, -2} : 10 * adjustments.warmth = n * Scale

\* C11 witness: a list that sets four deltas, the brightness delta strictly
\* inside its negative range, and leaves the contrast delta 0.
C11_Witness ==
    /\ Parsed
    /\ adjustments.brightness < 0 /\ 10 * adjustments.brightness > -(5 * Scale)
    /\ 10 * adjustments.brightness < -Scale
    /\ adjustments.contrast = 0
    /\ adjustments.color # 0
    /\ adjustments.sharpness < 0
    /\ adjustments.warmth # 0

\* C18: _apply_enhancements called with crop_rule_thirds = True raises no
\* error, whether or not a contour is found.
C18_CropStepNeverRaises ==
    adjustments.crop_rule_thirds => (pc # "failed" /\ error = "none")

\* the distance between two coordinates
Dist(a, b) == IF a >= b THEN a - b ELSE b - a

\* the target the solver chose for a subject center c on an axis of length
\* dim is, of the thirds lines dim // 3 and 2 * dim // 3, one nearest to c
NearestThird(c, dim) ==
    LET t == ThirdsTarget(c, dim)
    IN  /\ t \in {dim \div 3, (dim * 2) \div 3}
        /\ Dist(c, t) <= Dist(c, dim \div 3)
        /\ Dist(c, t) <= Dist(c, (dim * 2) \div 3)

\* C16 as claimed: on each axis the target is the thirds line nearest the
\* subject center.
C16_TargetIsNearestThird ==
    Cropped =>
        /\ NearestThird(SubjectCenter(contours[1].x, contours[1].w), crop_image.w)
        /\ NearestThird(SubjectCenter(contours[1].y, contours[1].h), crop_image.h)

\* the target the solver chose for a subject center c on an axis of length
\* dim is the thirds line across the middle from the subject: the lower line
\* dim // 3, left of the subject and at least as far from it as the upper
\* line, when c > dim // 2; the upper line 2 * dim // 3, not left of the
\* subject, when c <= dim // 2
OppositeThird(c, dim) ==
    LET t == ThirdsTarget(c, dim)
        lower == dim \div 3
        upper == (dim * 2) \div 3
    IN  /\ c > dim \div 2 => (t = lower /\ t < c /\ Dist(c, t) >= Dist(c, upper))
        /\ c <= dim \div 2 => (t = upper /\ t >= c)

\* C16 as amended: on each axis the target is dimension // 3 when the subject
\* center is greater than dimension // 2 and 2 * dimension // 3 otherwise,
\* the thirds line on the other side of the middle, not the nearest one.
C16_TargetIsOppositeThird ==
    Cropped =>
        /\ OppositeThird(SubjectCenter(contours[1].x, contours[1].w), crop_image.w)
        /\ OppositeThird(SubjectCenter(contours[1].y, contours[1].h), crop_image.h)

\* C16 witness: a subject right of the middle and nearer the upper thirds
\* line, for which the solver targets the lower line, strictly farther.
C16_Witness ==
    /\ Cropped
    /\ LET c == SubjectCenter(contours[1].x, contours[1].w)
           dim == crop_image.w
       IN  /\ c > dim \div 2
           /\ ThirdsTarget(c, dim) = dim \div 3
           /\ Dist(c, dim \div 3) > Dist(c, (dim * 2) \div 3)
    /\ CropWindow[1] > 0

\* _analyze_rule_of_thirds has returned
Scored == score # <<>>

\* C12: for an edge map without an edge pixel the rule-of-thirds score is
\* exactly 0.0 and is returned before any division is evaluated.
C12_NoEdgesScoreZero ==
    (Scored /\ edges.px = {}) => (IsZero(score[1]) /\ divisors = <<>>)

\* C12 witness: an all-black image of more than one pixel has been scored.
C12_Witness ==
    /\ Scored
    /\ edges.px = {}
    /\ edges.w >= 10
    /\ edges.h >= 10
    /\ IsZero(score[1])

\* a float of [0, 1]: a number, neither nan nor inf, from 0 to 1
InUnitInterval(a) == a[2] > 0 /\ 0 <= a[1] /\ a[1] <= a[2]

\* C13: for every image of positive width and height and every edge map the
\* rule-of-thirds score lies in [0, 1].
C13_ScoreInUnitInterval ==
    Scored => InUnitInterval(score[1])

\* C13 witness: a score strictly between 0 and 1, reached through the three
\* divisions.
C13_Witness ==
    /\ Scored
    /\ 0 < score[1][1]
    /\ score[1][1] < score[1][2]
    /\ Len(divisors) = 3

Warmed == warm_result # <<>>

\* the exact image of a channel value: the product with 1 + d, at most 255,
\* and the product with 1 - d / 2, both in units of 1 / (2 * Scale)
ExactEnhanced(channel, d) == Min(255 * 2 * Scale, channel * 2 * (Scale + d))

ExactReduced(channel, d) == channel * (2 * Scale - d)

\* pixel q is the exact image of pixel p under delta d
ExactWarmPixel(p, q, d) ==
    /\ q[2] = p[2]
    /\ IF d > 0
       THEN /\ q[1] * 2 * Scale = ExactEnhanced(p[1], d)
            /\ q[3] * 2 * Scale = ExactReduced(p[3], d)
       ELSE /\ q[3] * 2 * Scale = ExactEnhanced(p[3], -d)
            /\ q[1] * 2 * Scale = ExactReduced(p[1], -d)

\* the integer part of a fraction n / (2 * Scale) that is not negative
IntegerPart(n) == CHOOSE k \in ChannelValues : k * 2 * Scale <= n /\ n < (k + 1) * 2 * Scale

\* pixel q is the image of pixel p under delta d with the fractions dropped
TruncatedWarmPixel(p, q, d) ==
    /\ q[2] = p[2]
    /\ IF d > 0
       THEN /\ q[1] = IntegerPart(ExactEnhanced(p[1], d))
            /\ q[3] = IntegerPart(ExactReduced(p[3], d))
       ELSE /\ q[3] = IntegerPart(ExactEnhanced(p[3], -d))
            /\ q[1] = IntegerPart(ExactReduced(p[1], -d))

\* green, the dimensions and the range of the values
WarmthFrame ==
    /\ warm_result[1].w = img_array.w
    /\ warm_result[1].h = img_array.h
    /\ DOMAIN warm_result[1].px = DOMAIN img_array.px
    /\ \A pos \in DOMAIN img_array.px :
          /\ warm_result[1].px[pos][2] = img_array.px[pos][2]
          /\ \A c \in 1 .. 3 : warm_result[1].px[pos][c] \in ChannelValues

\* C20 as claimed: the warmth transform maps red r to min(255, r * (1 + d))
\* and blue b to b * (1 - d / 2) for positive d, red and blue exchanged with
\* |d| for negative d; green and the dimensions are unchanged and every
\* value stays in [0, 255].
C20_WarmthExactProducts ==
    Warmed =>
        /\ WarmthFrame
        /\ \A pos \in DOMAIN img_array.px :
              ExactWarmPixel(img_array.px[pos], warm_result[1].px[pos], warm_adjustment)

\* C20 as amended: the channel values are the integer parts of
\* min(255, r * (1 + d)) and b * (1 - d / 2), red and blue exchanged with |d|
\* for negative d; green and the dimensions are unchanged and every value
\* stays in [0, 255].
C20_WarmthTruncatedProducts ==
    Warmed =>
        /\ WarmthFrame
        /\ \A pos \in DOMAIN img_array.px :
              TruncatedWarmPixel(img_array.px[pos], warm_result[1].px[pos], warm_adjustment)

\* C20 witness: a warmer image of several pixels in which a red value was
\* limited to 255, another lost a fraction, and blue went down.
C20_Witness ==
    /\ Warmed
    /\ warm_adjustment > 0
    /\ Cardinality(DOMAIN img_array.px) > 1
    /\ \E pos \in DOMAIN img_array.px :
          /\ img_array.px[pos][1] < 255
          /\ warm_result[1].px[pos][1] = 255
    /\ \E pos \in DOMAIN img_array.px :
          /\ warm_result[1].px[pos][1] < 255
          /\ warm_result[1].px[pos][1] * Scale # img_array.px[pos][1] * (Scale + warm_adjustment)
          /\ warm_result[1].px[pos][3] < img_array.px[pos][3]

\* the upload session s is processing, or has processed last
CurrentUpload(s) == << s, uploads[s] >>

\* C14: the face detector's model data is constructed at most once per
\* process, across any number of analyze and visualization calls.
C14_DetectorLoadedAtMostOnce ==
    cascade_loads <= 1

\* C15: under every interleaving of two invocations on different images, the
\* enhanced image and the visualization each caller reads back are the ones
\* computed from that caller's own input.
C15_EachCallerReadsItsOwn ==
    \A s \in Sessions :
        /\ enhanced_image[s] # NoUpload => enhanced_image[s] = CurrentUpload(s)
        /\ analysis_viz[s] # NoUpload => analysis_viz[s] = CurrentUpload(s)

\* C17: in the processing of one upload the analyzer's metric computation
\* runs exactly once, and the AnalysisResult stays the one computed from the
\* upload.
C17_AnalysisCreatedOnce ==
    \A s \in Sessions :
        /\ analyze_calls[s] <= 1
        /\ app_pc[s] \notin { "idle", "analyze" } =>
              /\ analyze_calls[s] = 1
              /\ image_analysis[s] = CurrentUpload(s)

\* the square of half-side region_size around the i-th intersection, before
\* the limits of lines 86-87, as <<x1, y1, x2, y2>>
Square(e, i) ==
    LET x == IntersectionRegions(e)[i][1]
        y == IntersectionRegions(e)[i][2]
    IN  << x - RegionSize(e), y - RegionSize(e), x + RegionSize(e), y + RegionSize(e) >>

\* the pixel positions the slice of the i-th region holds
RegionPositions(e, i) ==
    LET r == Region(e, i)
    IN  { p \in Positions(e.w, e.h) : /\ r[1] <= p[1] /\ p[1] < r[3]
                                      /\ r[2] <= p[2] /\ p[2] < r[4] }

\* C21: the four square intersection regions lie inside the image and are
\* pairwise disjoint, so the intersection edge sum never exceeds the total
\* edge count and the area 4 * (2 * region_size)^2 of the expected
\* proportion is the area scanned.
C21_RegionsInsideAndDisjoint ==
    Scored =>
        /\ \A i \in 1 .. 4 :
              /\ 0 <= Square(edges, i)[1]
              /\ 0 <= Square(edges, i)[2]
              /\ Square(edges, i)[3] <= edges.w
              /\ Square(edges, i)[4] <= edges.h
              /\ Region(edges, i) = Square(edges, i)
        /\ \A i \in 1 .. 4 : \A j \in 1 .. 4 :
              i # j => RegionPositions(edges, i) \cap RegionPositions(edges, j) = {}
        /\ IntersectionEdgeSum(edges) <= TotalEdges(edges)
        /\ RegionPixels(edges) =
              Cardinality(UNION { RegionPositions(edges, i) : i \in 1 .. 4 })

\* C21 witness: an image with regions of more than no pixel has been scored,
\* with edge pixels in two regions and edge pixels outside the regions.
C21_Witness ==
    /\ Scored
    /\ RegionSize(edges) >= 1
    /\ \E i \in 1 .. 4 : \E j \in 1 .. 4 :
          i # j /\ RegionEdges(edges, i) > 0 /\ RegionEdges(edges, j) > 0
    /\ IntersectionEdgeSum(edges) < TotalEdges(edges)

\* the pairs <<family, text of the pool>> where the text holds a keyword of
\* the family, an increase word and a decrease word of its vocabulary
BothAsked ==
    { p \in FamilyTexts : /\ Mentions(p[2], FamilyKeywords(p[1]))
                          /\ Mentions(p[2], FamilyIncrease(p[1]))
                          /\ Mentions(p[2], FamilyDecrease(p[1])) }

\* d, in units of 1 / Scale, is the increase value of family f under
\* analysis a: clamp(1 - brightness / 255, 0.1, 0.5),
\* clamp(1 - contrast, 0.1, 0.7), 0.3, 0.5 and 0.2
IsIncreaseValue(f, d, a) ==
    CASE f = "brightness" ->
            2550 * d = Scale * Clamp(2550 - BrightnessTenths(a), 255, 5 * 255)
      [] f = "contrast" -> 10 * d = Clamp(10 * (Scale - ContrastUnits(a)), Scale, 7 * Scale)
      [] f = "color" -> 10 * d = 3 * Scale
      [] f = "sharpness" -> 10 * d = 5 * Scale
      [] f = "warmth" -> 10 * d = 2 * Scale

\* the step is one iteration of the for loop of _parse_suggestions, on
\* suggestions[idx]
ParseStep == pc = "parse" /\ idx' = idx + 1

\* what C22 says of one iteration of the loop
IncreaseTakesPrecedence ==
    ParseStep =>
        /\ \A f \in DeltaFamilies :
              <<f, suggestions[idx]>> \in BothAsked =>
                  IsIncreaseValue(f, adjustments'[f], analysis)
        /\ suggestions[idx] = TxtIncreaseContrastDecreaseBrightness =>
              adjustments'.brightness > 0 /\ adjustments'.contrast > 0

\* C22: a suggestion that contains an increase word and a decrease word of a
\* matched family's vocabulary gives the family its increase value; the
\* suggestion "increase contrast and decrease brightness" gives positive
\* deltas to both brightness and contrast.
C22_IncreaseTakesPrecedence == [][IncreaseTakesPrecedence]_vars

\* C22 witness: "darker" set a negative brightness delta and "increase
\* contrast and decrease brightness" then made it and contrast positive.
C22_Witness ==
    /\ Parsed
    /\ suggestions = << TxtDarker, TxtIncreaseContrastDecreaseBrightness >>
    /\ <<"brightness", suggestions[2]>> \in BothAsked
    /\ <<"contrast", suggestions[2]>> \in BothAsked
    /\ adjustments.brightness > 0
    /\ adjustments.contrast > 0

\* the texts of the pool that hold a composition keyword and name the rule
\* of thirds
CropTexts == { t \in ThirdsTexts : Mentions(t, composition_keywords) }

\* the pairs <<family, text of the pool>> where the text holds a keyword of
\* the family
KeywordTexts == { p \in FamilyTexts : Mentions(p[2], FamilyKeywords(p[1])) }

\* what C23 says of one iteration of the loop
SuggestionFrame ==
    ParseStep =>
        /\ \A f \in DeltaFamilies :
              ~SetsFamily(f, suggestions[idx]) => adjustments'[f] = adjustments[f]
        /\ ~(suggestions[idx] \in CropTexts /\ ~WellComposed(analysis)) =>
              adjustments'.crop_rule_thirds = adjustments.crop_rule_thirds
        /\ suggestions' = suggestions
        /\ analysis' = analysis

\* C23: processing one suggestion changes only the fields of the families it
\* matches by keyword and gives a direction for; a family keyword without a
\* direction word of the family leaves the family's delta at its earlier
\* value, and the suggestion list and the analysis are not modified.
C23_SuggestionFrame == [][SuggestionFrame]_vars

\* C23 witness: "increase brightness" set the brightness delta, and "crop the
\* dark flat area", which holds a brightness keyword and no direction word,
\* left it there.
C23_Witness ==
    /\ Parsed
    /\ suggestions = << TxtIncreaseBrightness, TxtCropDarkFlat >>
    /\ <<"brightness", TxtCropDarkFlat>> \in KeywordTexts
    /\ ~SetsFamily("brightness", TxtCropDarkFlat)
    /\ adjustments.brightness > 0
    /\ adjustments.contrast = 0

\* origin is a crop origin C24 allows for subject center c on an axis of
\* length dim: 0 when c <= dim // 2; otherwise positive, or the axis has no
\* slack; in both cases 0 or a value of 1 .. dim - crop_size
OriginFollowsSide(c, dim, origin) ==
    LET slack == dim - CropSize(dim)
    IN  /\ c <= dim \div 2 => origin = 0
        /\ c > dim \div 2 => (origin > 0 \/ slack = 0)
        /\ origin = 0 \/ origin \in 1 .. slack

\* C24: on each axis the crop origin is 0 when the subject center is not
\* greater than dimension // 2, and strictly positive, or the axis without
\* slack, when it is greater; the origin is 0 or in [1, dimension - crop_size].
C24_CropOriginBySide ==
    Cropped =>
        /\ OriginFollowsSide(SubjectCenter(contours[1].x, contours[1].w),
                             crop_image.w, CropWindow[1])
        /\ OriginFollowsSide(SubjectCenter(contours[1].y, contours[1].h),
                             crop_image.h, CropWindow[2])

\* C24 witness: the subject is right of the middle and not below it; the
\* window starts right of 0, within the slack, and at the top.
C24_Witness ==
    /\ Cropped
    /\ SubjectCenter(contours[1].x, contours[1].w) > crop_image.w \div 2
    /\ SubjectCenter(contours[1].y, contours[1].h) <= crop_image.h \div 2
    /\ SubjectCenter(contours[1].y, contours[1].h) > 0
    /\ CropWindow[1] > 0
    /\ CropWindow[1] <= crop_image.w - CropSize(crop_image.w)
    /\ CropWindow[2] = 0

====
